---- MODULE Spec2Model ----
(***************************************************************************)
(* Model of the enchanted-stone toolchain (src/toolchain.c): the brainfuck *)
(* simulator (bf_init, bf_char, the loop of main) and the logisim ROM      *)
(* generator (bf_instr_to_oct, bf_get_nth_rom_instruction,                 *)
(* bf_generate_rom).                                                       *)
(*                                                                         *)
(* Program counters and file positions are 0-based as in the C code; the   *)
(* k-th character of a file is code[k + 1].                                *)
(***************************************************************************)
EXTENDS Integers, Sequences, FiniteSets, TLC

-----------------------------------------------------------------------------
(* Bounds of the model.                                                    *)

\* Longest instruction stream over the full alphabet.
MaxLen == 3
\* Longest bracket-balanced stream over the loop alphabet.
MaxLoopLen == 5
\* Most calls of bf_char in one run.
MaxSteps == 12
\* Most bytes stdin delivers before its end of stream.
MaxInput == 1

-----------------------------------------------------------------------------
(* uint32_t values.  TLC's integers are 32-bit signed, so a uint32_t is    *)
(* the pair <<hi, lo>> of its two 16-bit halves: value = hi * 2^16 + lo.   *)

Limb == 2^16

U32(n) == <<n \div Limb, n % Limb>>

U32Zero == <<0, 0>>

\* x + 1 in uint32_t arithmetic (wraps at 2^32).
U32Inc(x) ==
    IF x[2] = Limb - 1 THEN <<(x[1] + 1) % Limb, 0>> ELSE <<x[1], x[2] + 1>>

\* x - 1 in uint32_t arithmetic (wraps below 0).
U32Dec(x) ==
    IF x[2] = 0 THEN <<(x[1] + Limb - 1) % Limb, Limb - 1>>
    ELSE <<x[1], x[2] - 1>>

RECURSIVE BitAnd(_, _)
\* Bitwise AND of two naturals.
BitAnd(a, b) ==
    IF a = 0 \/ b = 0 THEN 0
    ELSE (a % 2) * (b % 2) + 2 * BitAnd(a \div 2, b \div 2)

\* x & m on uint32_t.
U32And(x, m) == <<BitAnd(x[1], m[1]), BitAnd(x[2], m[2])>>

\* x < y on uint32_t.
U32Less(x, y) == x[1] < y[1] \/ (x[1] = y[1] /\ x[2] < y[2])

\* The array index a uint32_t in range denotes.
Index(x) == x[1] * Limb + x[2]

-----------------------------------------------------------------------------
(* Program constants.                                                      *)

STACK_SIZE == 256
MEMORY_SIZE == 65536

\* The result of getchar() at end of stream.
EOF == -1

\* The eight instructions and one character that is none of them.
Instructions == {">", "<", "+", "-", ".", ",", "[", "]"}
Alphabet == Instructions \cup {"x"}

\* The cell widths the simulator's options select.
Widths == {8, 16, 32}

\* cell_mask for a width: (uint32_t) ((1ULL << width) - 1).
bf_sim_args_set_cm(width) ==
    << IF width > 16 THEN 2^(width - 16) - 1 ELSE 0,
       IF width >= 16 THEN Limb - 1 ELSE 2^width - 1 >>

-----------------------------------------------------------------------------
(* The machine's memory and call stack.  Both are arrays of uint32_t; the  *)
(* model keeps only the entries that differ from the array's initial       *)
(* content.                                                                *)

\* mem is zeroed whole by bf_init: an absent cell is zero.
MemGet(mem, a) == IF a \in DOMAIN mem THEN mem[a] ELSE U32Zero

MemSet(mem, a, v) ==
    IF v = U32Zero THEN [x \in (DOMAIN mem) \ {a} |-> mem[x]]
    ELSE [x \in (DOMAIN mem) \cup {a} |-> IF x = a THEN v ELSE mem[x]]

\* bf_init zeroes STACK_SIZE bytes of the stack, that is STACK_SIZE / 4
\* entries; the other entries are whatever malloc returned.
StackZeroed == STACK_SIZE \div 4

\* An absent entry below StackZeroed is zero; an absent entry above it was
\* never written and reads as the indeterminate value u.
StackGet(stack, i, u) ==
    IF i \in DOMAIN stack THEN stack[i]
    ELSE IF i < StackZeroed THEN 0 ELSE u

StackSet(stack, i, v) ==
    IF v = 0 /\ i < StackZeroed THEN [x \in (DOMAIN stack) \ {i} |-> stack[x]]
    ELSE [x \in (DOMAIN stack) \cup {i} |-> IF x = i THEN v ELSE stack[x]]

\* Whether memp addresses a cell of mem, and sp an entry of stack.
InMem(memp) == U32Less(memp, U32(MEMORY_SIZE))
InStack(sp) == U32Less(sp, U32(STACK_SIZE))

\* bf_init: the initial state of the machine.
bf_init ==
    [ sp |-> U32Zero, pc |-> 0, stack |-> <<>>,
      fast_forwarding |-> FALSE, sp_bff |-> U32Zero,
      memp |-> U32Zero, mem |-> <<>> ]

-----------------------------------------------------------------------------
(* An access outside mem or stack is undefined behaviour.  Its outcomes    *)
(* are a segmentation fault, or an access to foreign memory: a foreign     *)
(* read yields some value, a foreign write changes none of the machine's   *)
(* own arrays.                                                             *)

UBValues == {0, 1}
UBOutcomes == [segv : BOOLEAN, val : UBValues]
NoUB == [segv |-> FALSE, val |-> 0]

\* mem[memp] as read by the code.
Cell(state, ub) ==
    IF InMem(state.memp) THEN MemGet(state.mem, Index(state.memp))
    ELSE U32(ub.val)

\* mem[memp] = v as written by the code.
CellStore(state, v) ==
    IF InMem(state.memp)
    THEN [state EXCEPT !.mem = MemSet(state.mem, Index(state.memp), v)]
    ELSE state

-----------------------------------------------------------------------------
(* bf_char, piece by piece.                                                *)

\* Mutation: the mask is forgotten after the addition.
CellIncrement_NoMask(v, cell_mask) == U32Inc(v)

\* '+': (mem[memp] + 1) & cell_mask
CellIncrement(v, cell_mask) == U32And(U32Inc(v), cell_mask)

\* Mutation: the mask is forgotten after the subtraction.
CellDecrement_NoMask(v, cell_mask) == U32Dec(v)

\* '-': (mem[memp] - 1) & cell_mask
CellDecrement(v, cell_mask) == U32And(U32Dec(v), cell_mask)

\* putchar(int c) writes (unsigned char) c.
putchar(v) == v[2] % 256

\* Mutation: the tab is written as it is.
OutputByte_Raw(v) == putchar(v)

\* '.': a tab is replaced by a space.
OutputByte(v) == IF v = U32(9) THEN 32 ELSE putchar(v)

\* Mutation: EOF is stored as a byte.
InputStore_Sentinel(v, in) == IF in # EOF THEN U32(in) ELSE U32(255)

\* ',': the value stored for the result in of getchar().
InputStore(v, in) == IF in # EOF THEN U32(in) ELSE v

\* Mutation: a loop is never skipped.
StartFastForward_Never(v, fast_forwarding) == FALSE

\* Mutation: a zero cell restarts fast forwarding while fast forwarding.
StartFastForward_Again(v, fast_forwarding) == v = U32Zero

\* '[': whether fast forwarding starts.
StartFastForward(v, fast_forwarding) == v = U32Zero /\ ~fast_forwarding

\* Mutation: a ']' nested in the skipped loop ends fast forwarding.
EndFastForward_Inner(state) ==
    state.fast_forwarding /\ state.sp # state.sp_bff

\* Mutation: any ']' ends fast forwarding.
EndFastForward_AnyClose(state) == state.fast_forwarding

\* ']': whether this is the ']' that ends fast forwarding.
EndFastForward(state) ==
    state.fast_forwarding /\ state.sp = state.sp_bff

\* Whether this call of bf_char reads or writes mem[memp].
TouchesMem(state, c, in) ==
    \/ ~state.fast_forwarding /\ c \in {"+", "-", "."}
    \/ ~state.fast_forwarding /\ c = "," /\ in # EOF
    \/ c \in {"[", "]"}

\* Whether this call of bf_char reads or writes outside mem or stack.
OutOfBounds(state, c, in) ==
    \/ TouchesMem(state, c, in) /\ ~InMem(state.memp)
    \/ c = "[" /\ ~InStack(U32Inc(state.sp))
    \/ c = "]" /\ ~InStack(state.sp)

\* Mutation: the first switch is executed while fast forwarding too.
DataEffect_Always(set, state, c, in, ub) ==
    CASE c = ">" -> [state EXCEPT !.memp = U32Inc(state.memp)]
      [] c = "<" -> [state EXCEPT !.memp = U32Dec(state.memp)]
      [] c = "+" -> CellStore(state, CellIncrement(Cell(state, ub), set))
      [] c = "-" -> CellStore(state, CellDecrement(Cell(state, ub), set))
      [] c = "," -> CellStore(state, InputStore(Cell(state, ub), in))
      [] OTHER -> state

\* The first switch: the instruction's effect on the data, skipped while
\* fast forwarding.
DataEffect(set, state, c, in, ub) ==
    IF state.fast_forwarding THEN state
    ELSE CASE c = ">" -> [state EXCEPT !.memp = U32Inc(state.memp)]
           [] c = "<" -> [state EXCEPT !.memp = U32Dec(state.memp)]
           [] c = "+" -> CellStore(state, CellIncrement(Cell(state, ub), set))
           [] c = "-" -> CellStore(state, CellDecrement(Cell(state, ub), set))
           [] c = "," -> CellStore(state, InputStore(Cell(state, ub), in))
           [] OTHER -> state

\* The bytes the first switch writes to stdout.
Emitted(state, c, ub) ==
    IF ~state.fast_forwarding /\ c = "." THEN <<OutputByte(Cell(state, ub))>>
    ELSE <<>>

\* Whether the first switch calls getchar().
CallsGetchar(state, c) == ~state.fast_forwarding /\ c = ","

\* case '[' of the second switch.
LoopOpen(state, ub) ==
    LET sp1 == U32Inc(state.sp)
        pushed == IF InStack(sp1)
                  THEN StackSet(state.stack, Index(sp1), state.pc + 1)
                  ELSE state.stack
        start == StartFastForward(Cell(state, ub), state.fast_forwarding)
    IN  [state EXCEPT !.sp = sp1,
                      !.stack = pushed,
                      !.sp_bff = IF start THEN sp1 ELSE @,
                      !.fast_forwarding = IF start THEN TRUE ELSE @,
                      !.pc = @ + 1]

\* Mutation: the ']' that keeps looping pops too.
LoopClose_JumpPops(state, ub) ==
    LET ended == EndFastForward(state)
        s1 == [state EXCEPT !.sp_bff = IF ended THEN U32Zero ELSE @,
                            !.fast_forwarding = IF ended THEN FALSE ELSE @]
    IN  IF Cell(s1, ub) = U32Zero
        THEN [s1 EXCEPT !.stack = IF InStack(s1.sp)
                                  THEN StackSet(@, Index(s1.sp), 0) ELSE @,
                        !.sp = U32Dec(s1.sp),
                        !.pc = @ + 1]
        ELSE [s1 EXCEPT !.sp = U32Dec(s1.sp),
                        !.pc = IF InStack(s1.sp)
                              THEN StackGet(s1.stack, Index(s1.sp), ub.val)
                              ELSE ub.val]

\* case ']' of the second switch.
LoopClose(state, ub) ==
    LET ended == EndFastForward(state)
        s1 == [state EXCEPT !.sp_bff = IF ended THEN U32Zero ELSE @,
                            !.fast_forwarding = IF ended THEN FALSE ELSE @]
    IN  IF Cell(s1, ub) = U32Zero
        THEN \* Stop looping
             [s1 EXCEPT !.stack = IF InStack(s1.sp)
                                  THEN StackSet(@, Index(s1.sp), 0) ELSE @,
                        !.sp = U32Dec(s1.sp),
                        !.pc = @ + 1]
        ELSE \* Keep looping
             [s1 EXCEPT !.pc = IF InStack(s1.sp)
                              THEN StackGet(s1.stack, Index(s1.sp), ub.val)
                              ELSE ub.val]

\* Mutation: the default case leaves pc alone.
StackEffect_Stuck(state, c, ub) ==
    CASE c = "[" -> LoopOpen(state, ub)
      [] c = "]" -> LoopClose(state, ub)
      [] OTHER -> IF c \in Instructions THEN [state EXCEPT !.pc = @ + 1]
                  ELSE state

\* The second switch and the final pc++.
StackEffect(state, c, ub) ==
    CASE c = "[" -> LoopOpen(state, ub)
      [] c = "]" -> LoopClose(state, ub)
      [] OTHER -> [state EXCEPT !.pc = @ + 1]

\* bf_char(set, &state, c): the state after the call, when it returns.
bf_char(set, state, c, in, ub) ==
    StackEffect(DataEffect(set, state, c, in, ub), c, ub)

-----------------------------------------------------------------------------
(* The ROM generator.  Characters are one-character strings; NUL is the   *)
(* character '\0'.                                                         *)

NUL == "NUL"

\* Mutation: '-' gets the digit of '+'.
bf_instr_to_oct_Clash(c) ==
    CASE c = ">" -> "0"
      [] c = "<" -> "1"
      [] c = "+" -> "2"
      [] c = "-" -> "2"
      [] c = "." -> "4"
      [] c = "," -> "5"
      [] c = "[" -> "6"
      [] c = "]" -> "7"
      [] OTHER -> NUL

\* bf_instr_to_oct: the octal digit of an instruction, '\0' for any other
\* character.
bf_instr_to_oct(c) ==
    CASE c = ">" -> "0"
      [] c = "<" -> "1"
      [] c = "+" -> "2"
      [] c = "-" -> "3"
      [] c = "." -> "4"
      [] c = "," -> "5"
      [] c = "[" -> "6"
      [] c = "]" -> "7"
      [] OTHER -> NUL

\* Mutation: one instruction short.
bf_get_rom_instruction_count_Short(f) == Len(f) + 7

\* bf_get_rom_instruction_count
bf_get_rom_instruction_count(f) == Len(f) + 8

RomPrologue == <<">", "<">>
RomEpilogue == <<"[", "-", "]", "+", "[", "]">>

\* bf_get_nth_rom_instruction
bf_get_nth_rom_instruction(f, n) ==
    IF n < 2 THEN RomPrologue[n + 1]
    ELSE IF n < 2 + Len(f) THEN f[n - 2 + 1]
    ELSE RomEpilogue[n - Len(f) - 2 + 1]

\* The header line "v3.0 hex words plain\n", character by character.
RomHeader ==
    <<"v", "3", ".", "0", " ", "h", "e", "x", " ", "w", "o", "r", "d", "s",
      " ", "p", "l", "a", "i", "n", "\n">>

\* The separator written after the token that follows `count` tokens.
RomSeparator(count) == IF (count + 1) % 16 = 0 THEN "\n" ELSE " "

RECURSIVE RomLoop_ByIndex(_, _, _, _)
\* Mutation: lines are split on the index of the instruction, not on the
\* number of tokens written.
RomLoop_ByIndex(f, i, count, tmp) ==
    IF i >= bf_get_rom_instruction_count(f) THEN [count |-> count, tmp |-> tmp]
    ELSE LET fst == bf_instr_to_oct(bf_get_nth_rom_instruction(f, i))
         IN  IF fst # NUL
             THEN RomLoop_ByIndex(f, i + 1, count + 1,
                                  tmp \o <<fst, RomSeparator(i)>>)
             ELSE RomLoop_ByIndex(f, i + 1, count, tmp)

RECURSIVE RomLoop(_, _, _, _)
\* The for loop of bf_generate_rom from index i on: tmp is what has been
\* written so far, count the number of tokens in it.
RomLoop(f, i, count, tmp) ==
    IF i >= bf_get_rom_instruction_count(f) THEN [count |-> count, tmp |-> tmp]
    ELSE LET fst == bf_instr_to_oct(bf_get_nth_rom_instruction(f, i))
         IN  IF fst # NUL
             THEN RomLoop(f, i + 1, count + 1,
                          tmp \o <<fst, RomSeparator(count)>>)
             ELSE RomLoop(f, i + 1, count, tmp)

\* bf_generate_rom: size is the number of bytes allocated for code, written
\* the bytes of code the function has written (the rest of the buffer is
\* left as malloc returned it), len the length it reports.
bf_generate_rom(f) ==
    LET out_length == Len(RomHeader) + bf_get_rom_instruction_count(f) * 2
        done == RomLoop(f, 0, 0, RomHeader)
    IN  [ len |-> out_length - 1, size |-> out_length,
          written |-> done.tmp, count |-> done.count ]

-----------------------------------------------------------------------------
(* State.                                                                  *)

VARIABLES
    mode,      \* main's argv[0]: "sim" or "bin" ("law" in SpecWrap)
    file,      \* the instruction stream read by bf_read_file (file.code)
    set,       \* set.cell_mask
    state,     \* the bf_state
    status,    \* "running", "exited" (the loop ended) or "segv"
    stdout,    \* the bytes written by putchar, in order
    stdin,     \* the bytes returned by getchar, in order
    steps,     \* the number of calls of bf_char so far
    rom,       \* the bf_rom_file made by bf_generate_rom, or NoRom
    ref,       \* history: the reference interpreter run beside the machine
    skip_to,   \* history: index of the ']' ending the loop being skipped
    hist,      \* history: counts and the state at the start of a skip
    wrap       \* the cell of the wraparound law (SpecWrap)

vars == <<mode, file, set, state, status, stdout, stdin, steps, rom, ref,
          skip_to, hist, wrap>>

\* decs: the number of '-' executed outside fast forwarding; snap: the
\* machine and the step count just before the '[' that started the skip;
\* match: the matching bracket of every bracket of the stream.
NoHist == [decs |-> 0, snap |-> [pc |-> -1, steps |-> 0, state |-> bf_init],
           match |-> <<>>]

NoRom == [len |-> 0, size |-> 0, written |-> <<>>, count |-> 0]

NoWrap == [width |-> 8, start |-> U32Zero, value |-> U32Zero,
           incs |-> 0, decs |-> 0]

-----------------------------------------------------------------------------
(* Bracket structure of an instruction stream.                             *)

Min(x, y) == IF x <= y THEN x ELSE y
Max(x, y) == IF x >= y THEN x ELSE y

\* One character's contribution to the bracket depth.
Bracket(c) == IF c = "[" THEN 1 ELSE IF c = "]" THEN -1 ELSE 0

RECURSIVE Seg(_, _, _)
\* Of the characters a..b of s (1-based): net, the '[' minus the ']'; low, the
\* least net of a prefix of them; high, the greatest net of a suffix of them
\* (the empty prefix and suffix included).  Computed by halving, so that long
\* streams need no deep recursion.
Seg(s, a, b) ==
    IF a > b THEN [net |-> 0, low |-> 0, high |-> 0]
    ELSE IF a = b
    THEN [net |-> Bracket(s[a]), low |-> Min(0, Bracket(s[a])),
          high |-> Max(0, Bracket(s[a]))]
    ELSE LET m == (a + b) \div 2
             l == Seg(s, a, m)
             r == Seg(s, m + 1, b)
         IN  [net |-> l.net + r.net,
              low |-> Min(l.low, l.net + r.low),
              high |-> Max(r.high, r.net + l.high)]

\* The bracket depth after the first n characters of s, or -1 when a ']'
\* closes nothing among them.
Depth(s, n) ==
    LET g == Seg(s, 1, n) IN IF g.low < 0 THEN -1 ELSE g.net

Balanced(s) == Depth(s, Len(s)) = 0

RECURSIVE FirstDrop(_, _, _, _)
\* The first k in a..b (1-based) where the characters a..k of s have net -d;
\* there is one.
FirstDrop(s, a, b, d) ==
    IF a = b THEN a
    ELSE LET m == (a + b) \div 2
             l == Seg(s, a, m)
         IN  IF l.low <= -d THEN FirstDrop(s, a, m, d)
             ELSE FirstDrop(s, m + 1, b, d + l.net)

\* The 0-based index of the ']' that brings the depth d back to 0, scanning
\* s from 0-based index j; -1 when there is none.
ScanClose(s, j, d) ==
    IF j >= Len(s) \/ Seg(s, j + 1, Len(s)).low > -d THEN -1
    ELSE FirstDrop(s, j + 1, Len(s), d) - 1

\* The matching ']' of the '[' at 0-based index i.
MatchClose(s, i) == ScanClose(s, i + 1, 1)

RECURSIVE LastRise(_, _, _, _)
\* The last k in a..b (1-based) where the characters k..b of s have net d;
\* there is one.
LastRise(s, a, b, d) ==
    IF a = b THEN a
    ELSE LET m == (a + b) \div 2
             r == Seg(s, m + 1, b)
         IN  IF r.high >= d THEN LastRise(s, m + 1, b, d)
             ELSE LastRise(s, a, m, d - r.net)

\* The same, backwards: the '[' that brings the depth d back to 0.
ScanOpen(s, j, d) ==
    IF j < 0 \/ Seg(s, 1, j + 1).high < d THEN -1
    ELSE LastRise(s, 1, j + 1, d) - 1

\* The matching '[' of the ']' at 0-based index i.
MatchOpen(s, i) == ScanOpen(s, i - 1, 1)

\* The 0-based index of the matching bracket of every bracket of s, -1 where
\* there is none.
MatchTable(s) ==
    [j \in {i \in 0..(Len(s) - 1) : s[i + 1] \in {"[", "]"}} |->
        IF s[j + 1] = "[" THEN MatchClose(s, j) ELSE MatchOpen(s, j)]

StartHist(s) == [NoHist EXCEPT !.match = MatchTable(s)]

-----------------------------------------------------------------------------
(* The reference interpreter: the same data effects, loops by the         *)
(* matching-bracket table.  It is a history variable: it takes a step     *)
(* whenever the machine executes a character outside fast forwarding.     *)

RefInit ==
    [ pc |-> 0, memp |-> U32Zero, mem |-> <<>>, out |-> <<>>, in |-> <<>>,
      inside |-> TRUE ]

RefStep(r, code, mask, in) ==
    LET c == code[r.pc + 1]
        s == [bf_init EXCEPT !.memp = r.memp, !.mem = r.mem]
        d == DataEffect(mask, s, c, in, NoUB)
        v == Cell(d, NoUB)
        pc1 == IF c = "[" /\ v = U32Zero /\ hist.match[r.pc] >= 0
               THEN hist.match[r.pc] + 1
               ELSE IF c = "]" /\ v # U32Zero /\ hist.match[r.pc] >= 0
               THEN hist.match[r.pc] + 1
               ELSE r.pc + 1
    IN  [ pc |-> pc1, memp |-> d.memp, mem |-> d.mem,
          out |-> r.out \o Emitted(s, c, NoUB),
          in |-> IF c = "," /\ in # EOF THEN Append(r.in, in) ELSE r.in,
          inside |-> r.inside /\ InMem(d.memp) ]

-----------------------------------------------------------------------------
(* The simulator: main's "sim" branch.                                     *)

SeqsUpTo(S, n) == UNION {[1..k -> S] : k \in 0..n}

LoopAlphabet == {"+", "-", ".", ",", "[", "]"}

\* The instruction streams of the model.
Files ==
    SeqsUpTo(Alphabet, MaxLen)
      \cup {s \in SeqsUpTo(LoopAlphabet, MaxLoopLen) : Balanced(s)}

\* The bytes stdin can deliver.
InputBytes == {0, 2, 9, 255}

\* The results getchar() can have: a byte while the stream lasts, or EOF.
Getchar == IF Len(stdin) < MaxInput THEN InputBytes \cup {EOF} ELSE {EOF}

Init ==
    /\ mode = "sim"
    /\ file \in Files
    /\ set \in {bf_sim_args_set_cm(w) : w \in Widths}
    /\ state = bf_init
    /\ status = "running"
    /\ stdout = <<>>
    /\ stdin = <<>>
    /\ steps = 0
    /\ rom = NoRom
    /\ ref = RefInit
    /\ skip_to = -1
    /\ hist = StartHist(file)
    /\ wrap = NoWrap

\* The history variables after the machine executes c.
History(c, in) ==
    /\ ref' = IF ~state.fast_forwarding /\ ref.pc < Len(file)
              THEN RefStep(ref, file, set, in) ELSE ref
    /\ skip_to' =
         IF skip_to >= 0
         THEN IF state.pc = skip_to THEN -1 ELSE skip_to
         ELSE IF /\ c = "[" /\ ~state.fast_forwarding
                 /\ InMem(state.memp) /\ Cell(state, NoUB) = U32Zero
              THEN hist.match[state.pc]
              ELSE -1
    /\ hist' =
         [decs |-> IF c = "-" /\ ~state.fast_forwarding
                   THEN hist.decs + 1 ELSE hist.decs,
          snap |-> IF /\ skip_to < 0 /\ c = "[" /\ ~state.fast_forwarding
                      /\ InMem(state.memp) /\ Cell(state, NoUB) = U32Zero
                   THEN [pc |-> state.pc, steps |-> steps, state |-> state]
                   ELSE hist.snap,
          match |-> hist.match]

\* One iteration of main's loop: bf_char(set, &state, file.code[state.pc]),
\* in a run of at most limit iterations.
StepWithin(limit) ==
    /\ mode = "sim"
    /\ status = "running"
    /\ state.pc < Len(file)
    /\ steps < limit
    /\ LET c == file[state.pc + 1]
       IN  \E in \in IF CallsGetchar(state, c) THEN Getchar ELSE {EOF} :
           \E ub \in IF OutOfBounds(state, c, in) THEN UBOutcomes ELSE {NoUB} :
              /\ stdin' = IF CallsGetchar(state, c) /\ in # EOF
                          THEN Append(stdin, in) ELSE stdin
              /\ IF OutOfBounds(state, c, in) /\ ub.segv
                 THEN /\ status' = "segv"
                      /\ UNCHANGED <<state, stdout, ref, skip_to, hist>>
                 ELSE /\ state' = bf_char(set, state, c, in, ub)
                      /\ stdout' = stdout \o Emitted(state, c, ub)
                      /\ status' = status
                      /\ History(c, in)
    /\ steps' = steps + 1
    /\ UNCHANGED <<mode, file, set, rom, wrap>>

Step == StepWithin(MaxSteps)

\* The loop's condition fails: bf_finalize and return.
Exit ==
    /\ mode = "sim"
    /\ status = "running"
    /\ state.pc >= Len(file)
    /\ status' = "exited"
    /\ UNCHANGED <<mode, file, set, state, stdout, stdin, steps, rom, ref,
                   skip_to, hist, wrap>>

Next == Step \/ Exit

Spec == Init /\ [][Next]_vars

-----------------------------------------------------------------------------
(* The simulator on long streams: a run of '+' followed by the counting    *)
(* loop [-] (8-bit cells) or by '.' (every cell width).                    *)

\* Longest run of '+'.
MaxPlus == 265

\* Enough iterations of main's loop for every long stream to end.
LongSteps == 3 * MaxPlus + 4

Plus(n) == [i \in 1..n |-> "+"]

InitLong ==
    /\ mode = "sim"
    /\ \E n \in 0..MaxPlus :
          \/ /\ file = Plus(n) \o <<"[", "-", "]">>
             /\ set = bf_sim_args_set_cm(8)
          \/ /\ file = Plus(n) \o <<".">>
             /\ set \in {bf_sim_args_set_cm(w) : w \in Widths}
    /\ state = bf_init
    /\ status = "running"
    /\ stdout = <<>>
    /\ stdin = <<>>
    /\ steps = 0
    /\ rom = NoRom
    /\ ref = RefInit
    /\ skip_to = -1
    /\ hist = StartHist(file)
    /\ wrap = NoWrap

LongStep == StepWithin(LongSteps)

NextLong == LongStep \/ Exit

\* main's loop goes on while its condition holds, and returns when it fails.
SpecLong == InitLong /\ [][NextLong]_vars /\ WF_vars(NextLong)

-----------------------------------------------------------------------------
(* The simulator on loops nested up to the capacity of the stack, entered  *)
(* on a zero or on a nonzero cell (8-bit cells).                           *)

\* n loops, each the whole body of the one around it.
Nest(n) == [i \in 1..(2 * n) |-> IF i <= n THEN "[" ELSE "]"]

\* Enough iterations of main's loop to pass the deepest nest.
DeepSteps == 2 * STACK_SIZE + 4

InitDeep ==
    /\ mode = "sim"
    /\ \E n \in {STACK_SIZE - 1, STACK_SIZE} :
          file \in {Nest(n), <<"+">> \o Nest(n)}
    /\ set = bf_sim_args_set_cm(8)
    /\ state = bf_init
    /\ status = "running"
    /\ stdout = <<>>
    /\ stdin = <<>>
    /\ steps = 0
    /\ rom = NoRom
    /\ ref = RefInit
    /\ skip_to = -1
    /\ hist = StartHist(file)
    /\ wrap = NoWrap

DeepStep == StepWithin(DeepSteps)

NextDeep == DeepStep \/ Exit

SpecDeep == InitDeep /\ [][NextDeep]_vars

-----------------------------------------------------------------------------
(* The ROM generator: main's "bin" branch.                                 *)

\* Longest arbitrary head of a ROM source, and longest run of one character
\* after it.
MaxHead == 2
MaxPad == 24

\* Most bytes puts finds behind the written ones before a '\0'.
MaxOver == 2

\* The sources of the ROM generator: any short stream, followed by a run of
\* one instruction or of one character that is no instruction.
RomFiles ==
    {h \o [i \in 1..k |-> p] :
        h \in SeqsUpTo(Alphabet, MaxHead), p \in {"+", "x"}, k \in 0..MaxPad}

InitRom ==
    /\ mode = "bin"
    /\ file \in RomFiles
    /\ set = bf_sim_args_set_cm(8)
    /\ state = bf_init
    /\ status = "running"
    /\ stdout = <<>>
    /\ stdin = <<>>
    /\ steps = 0
    /\ rom = NoRom
    /\ ref = RefInit
    /\ skip_to = -1
    /\ hist = NoHist
    /\ wrap = NoWrap

\* bf_rom_file rom = bf_generate_rom(file);
GenerateRom ==
    /\ mode = "bin"
    /\ status = "running"
    /\ rom' = bf_generate_rom(file)
    /\ status' = "generated"
    /\ UNCHANGED <<mode, file, set, state, stdout, stdin, steps, ref, skip_to,
                   hist, wrap>>

\* puts(rom.code): prints the bytes of code up to the first '\0'.  The
\* function wrote none, so puts reads on behind the written bytes, through
\* what is left of the buffer as malloc returned it and then outside it:
\* it finds some bytes (shown as "?") and a '\0', or the process is killed.
Puts ==
    /\ mode = "bin"
    /\ status = "generated"
    /\ \E over \in 0..MaxOver, killed \in BOOLEAN :
          IF killed
          THEN status' = "segv" /\ stdout' = stdout
          ELSE /\ status' = "printed"
               /\ stdout' = rom.written \o [i \in 1..over |-> "?"]
    /\ UNCHANGED <<mode, file, set, state, stdin, steps, rom, ref, skip_to,
                   hist, wrap>>

NextRom == GenerateRom \/ Puts

SpecRom == InitRom /\ [][NextRom]_vars

-----------------------------------------------------------------------------
(* The wraparound law of a cell: '+' and '-' of bf_char applied to one    *)
(* cell again and again.                                                   *)

\* The number of values of a cell of the given width, for widths up to 16.
Period(width) == 2^width

\* The starting values of the cell: all of them for 8 bits, the ends and
\* the middle of the range for 16 and 32 bits.
WrapStarts(width) ==
    CASE width = 8 -> {U32(v) : v \in 0..255}
      [] width = 16 -> {U32(0), U32(1), U32(Limb - 1)}
      [] width = 32 -> {<<0, 0>>, <<0, Limb - 1>>, <<Limb - 1, 0>>,
                        <<Limb - 1, Limb - 1>>}

InitWrap ==
    /\ mode = "law"
    /\ file = <<>>
    /\ set = bf_sim_args_set_cm(8)
    /\ state = bf_init
    /\ status = "running"
    /\ stdout = <<>>
    /\ stdin = <<>>
    /\ steps = 0
    /\ rom = NoRom
    /\ ref = RefInit
    /\ skip_to = -1
    /\ hist = NoHist
    /\ \E w \in Widths : \E v \in WrapStarts(w) :
          wrap = [width |-> w, start |-> v, value |-> v, incs |-> 0,
                  decs |-> 0]

\* '+' on the cell.  A 32-bit cell is followed for 2^16 increments, the
\* period of its lower half.
WrapIncrement ==
    /\ mode = "law"
    /\ wrap.decs = 0
    /\ wrap.incs < (IF wrap.width = 32 THEN Limb ELSE Period(wrap.width))
    /\ wrap' = [wrap EXCEPT
                  !.value = CellIncrement(@, bf_sim_args_set_cm(wrap.width)),
                  !.incs = @ + 1]
    /\ UNCHANGED <<mode, file, set, state, status, stdout, stdin, steps, rom,
                   ref, skip_to, hist>>

\* '-' on the cell, once, from its starting value.
WrapDecrement ==
    /\ mode = "law"
    /\ wrap.decs = 0
    /\ wrap.incs = 0
    /\ wrap' = [wrap EXCEPT
                  !.value = CellDecrement(@, bf_sim_args_set_cm(wrap.width)),
                  !.decs = 1]
    /\ UNCHANGED <<mode, file, set, state, status, stdout, stdin, steps, rom,
                   ref, skip_to, hist>>

NextWrap == WrapIncrement \/ WrapDecrement

SpecWrap == InitWrap /\ [][NextWrap]_vars

-----------------------------------------------------------------------------
(* Claims.                                                                 *)

\* The cell mem[memp] of a machine whose memp is inside mem.
Current(st) == MemGet(st.mem, Index(st.memp))

\* Whether the step being taken is a call of bf_char that returns.
Called == steps' = steps + 1 /\ status' = "running"

\* The character bf_char is called on in the current state.
Char == file[state.pc + 1]

\* C1: for a bracket-balanced stream whose data pointer stays inside memory,
\* the machine and the reference interpreter with the matching-bracket table
\* agree on program counter, data pointer, memory, output and consumed input
\* whenever the machine is not fast forwarding, and the machine is not fast
\* forwarding when pc reaches the end of the stream: the two runs end alike.
C1_RefinesReference ==
    (mode = "sim" /\ Balanced(file) /\ ref.inside) =>
        /\ ~state.fast_forwarding =>
              /\ state.pc = ref.pc
              /\ state.memp = ref.memp
              /\ state.mem = ref.mem
              /\ stdout = ref.out
              /\ stdin = ref.in
        /\ state.pc >= Len(file) => ~state.fast_forwarding

\* A balanced run that has ended after jumping back at least once, with
\* output written and input read.
C1_Witness ==
    /\ status = "exited" /\ Balanced(file) /\ ref.inside
    /\ steps > Len(file)
    /\ stdout # <<>> /\ stdin # <<>>

\* C2: the data pointer is below the memory size in every reachable state.
C2_PointerInsideMemory == InMem(state.memp)

\* The '[' being executed starts the skipping of a loop: not fast
\* forwarding, on a zero cell.
ZeroEntry ==
    /\ status = "running" /\ state.pc < Len(file) /\ Char = "["
    /\ ~state.fast_forwarding
    /\ InMem(state.memp) /\ Current(state) = U32Zero

\* C3: from a '[' executed outside fast forwarding on a zero cell up to and
\* including its matching ']', no step writes a byte or reads one.
C3_SkippedLoopSilent ==
    [][(ZeroEntry \/ skip_to >= 0) => (stdout' = stdout /\ stdin' = stdin)]_vars

\* A '.' has just been passed inside a loop nested in the loop being
\* skipped.
C3_Witness ==
    /\ skip_to >= 0 /\ state.pc >= 1 /\ state.pc <= skip_to
    /\ file[state.pc] = "." /\ state.sp = U32(2)
    /\ stdout = <<>>

\* The digit tokens of a ROM: every second character after the header.
Tokens(r) ==
    [k \in 1..((Len(r.written) - Len(RomHeader)) \div 2) |->
        r.written[Len(RomHeader) + 2 * k - 1]]

\* The number of instructions among the characters of s.
MappableCount(s) == Cardinality({i \in 1..Len(s) : s[i] \in Instructions})

\* C4: the ROM holds MappableCount(file) + 8 tokens; the first two are 0 1
\* and the last six are 6 3 7 2 6 7.
C4_TokenCount ==
    status = "generated" =>
        LET t == Tokens(rom)
            n == Len(t)
        IN  /\ n = MappableCount(file) + 8
            /\ rom.count = n
            /\ SubSeq(t, 1, 2) = <<"0", "1">>
            /\ SubSeq(t, n - 5, n) = <<"6", "3", "7", "2", "6", "7">>

\* A ROM made from a source with instructions and other characters.
C4_Witness ==
    /\ status = "generated"
    /\ Len(file) >= 3
    /\ \E i, j \in 1..Len(file) :
          file[i] \in Instructions /\ file[j] \notin Instructions

\* The inverse of the digit mapping.
DigitToInstr(d) ==
    CASE d = "0" -> ">"
      [] d = "1" -> "<"
      [] d = "2" -> "+"
      [] d = "3" -> "-"
      [] d = "4" -> "."
      [] d = "5" -> ","
      [] d = "6" -> "["
      [] d = "7" -> "]"
      [] OTHER -> NUL

RECURSIVE OnlyInstructions(_)
\* The subsequence of the instructions of s.
OnlyInstructions(s) ==
    IF s = <<>> THEN <<>>
    ELSE IF Head(s) \in Instructions
         THEN <<Head(s)>> \o OnlyInstructions(Tail(s))
         ELSE OnlyInstructions(Tail(s))

\* C5: the tokens between the 2 prologue and the 6 epilogue tokens, mapped
\* back digit by digit, are the instructions of the source in their order.
C5_RoundTrip ==
    status = "generated" =>
        LET t == Tokens(rom)
            body == SubSeq(t, 3, Len(t) - 6)
        IN  [k \in 1..Len(body) |-> DigitToInstr(body[k])]
              = OnlyInstructions(file)

\* A ROM made from a source that starts - x + and goes on.
C5_Witness ==
    /\ status = "generated"
    /\ Len(file) >= 4
    /\ file[1] = "-" /\ file[2] = "x" /\ file[3] = "+"

\* C6: the ROM starts with the header line, and the k-th token is followed
\* by a newline when k is a multiple of 16 and by a space otherwise.
C6_LineWrap ==
    status = "generated" =>
        /\ SubSeq(rom.written, 1, Len(RomHeader)) = RomHeader
        /\ \A k \in 1..Len(Tokens(rom)) :
              rom.written[Len(RomHeader) + 2 * k]
                = (IF k % 16 = 0 THEN "\n" ELSE " ")

\* A ROM of two full lines made from a source that has a character that is
\* no instruction before the first line break.
C6_Witness ==
    /\ status = "generated"
    /\ rom.count >= 32
    /\ file[1] = "x"

C8_CellsInWidth ==
    \A a \in DOMAIN state.mem :
        /\ U32And(state.mem[a], set) = state.mem[a]
        /\ (state.mem[a] = U32Zero) <=> (U32And(state.mem[a], set) = U32Zero)

\* A 16-bit machine with a cell decremented from 0 and a cell that holds
\* the input byte 255.
C8_Witness ==
    /\ mode = "sim" /\ set = bf_sim_args_set_cm(16)
    /\ MemGet(state.mem, 0) = U32(Limb - 1)
    /\ MemGet(state.mem, 1) = U32(255)
    /\ stdin = <<255>>

\* C9: '.' outside fast forwarding on a cell equal to 9 writes the one byte
\* 32 and leaves memory and data pointer as they are.
C9_TabAsSpace ==
    [][(/\ status = "running" /\ state.pc < Len(file) /\ Char = "."
        /\ ~state.fast_forwarding
        /\ InMem(state.memp) /\ Current(state) = U32(9)
        /\ Called)
       => /\ stdout' = Append(stdout, 32)
          /\ state'.mem = state.mem
          /\ state'.memp = state.memp]_vars

\* A '.' has just been executed on a cell equal to 9.
C9_Witness ==
    /\ mode = "sim" /\ status = "running" /\ ~state.fast_forwarding
    /\ state.pc >= 1 /\ file[state.pc] = "."
    /\ InMem(state.memp) /\ Current(state) = U32(9)
    /\ stdout = <<32>>

\* The step being taken is a call of bf_char on ',' outside fast
\* forwarding.
InputStep ==
    /\ status = "running" /\ state.pc < Len(file) /\ Char = ","
    /\ ~state.fast_forwarding
    /\ steps' = steps + 1

\* C10: ',' outside fast forwarding at end of stream leaves memory as it is
\* and advances pc by one; with a byte b, the current cell becomes b and no
\* other cell changes.
C10_InputAtEof ==
    [][InputStep =>
        /\ stdin' = stdin =>
              /\ state'.mem = state.mem
              /\ state'.pc = state.pc + 1
        /\ (stdin' # stdin /\ InMem(state.memp) /\ status' = "running") =>
              /\ Current(state') = U32(stdin'[Len(stdin')])
              /\ \A a \in (DOMAIN state.mem \cup DOMAIN state'.mem)
                            \ {Index(state.memp)} :
                    MemGet(state'.mem, a) = MemGet(state.mem, a)]_vars

\* A ',' has just been executed at end of stream on the second cell, which
\* is not zero.
C10_Witness ==
    /\ mode = "sim" /\ status = "running" /\ ~state.fast_forwarding
    /\ state.pc >= 1 /\ state.pc = Len(file) /\ state.pc = steps
    /\ file[state.pc] = ","
    /\ stdin = <<>>
    /\ state.memp = U32(1) /\ Current(state) # U32Zero

\* The long stream is a run of '+' followed by the counting loop.
CountingLoop ==
    /\ Len(file) >= 3
    /\ SubSeq(file, Len(file) - 2, Len(file)) = <<"[", "-", "]">>

\* The value of the cell when the counting loop is entered.
CountFrom == (Len(file) - 3) % 256

\* The iterations of main's loop the counting loop takes when entered with
\* the cell at v: three to skip it, else '[' and v times '-' and ']'.
LoopCost(v) == IF v = 0 THEN 3 ELSE 1 + 2 * v

\* The iterations still to come, read off the present state.
Remaining ==
    LET n == Len(file) - 3
        v == Current(state)[2]
    IN  IF state.pc < n THEN (n - state.pc) + LoopCost(CountFrom)
        ELSE IF state.pc = n THEN LoopCost(v)
        ELSE IF state.fast_forwarding THEN Len(file) - state.pc
        ELSE IF state.pc = n + 1 THEN 2 * v
        ELSE IF state.pc = n + 2 THEN 1 + 2 * v
        ELSE 0

\* C11: with 8-bit cells and the current cell at v, the stream [-] ends: the
\* iterations still to come go down by one with each iteration and reach
\* zero exactly when pc reaches the length of the stream, and then the cell is
\* 0, the stack pointer is back at its value before the loop, fast forwarding
\* is off, and the body has been executed exactly v times.
C11_CountingLoopEnds ==
    CountingLoop =>
        /\ steps + Remaining = (Len(file) - 3) + LoopCost(CountFrom)
        /\ steps + Remaining < LongSteps
        /\ (Remaining = 0) = (state.pc = Len(file))
        /\ state.pc = Len(file) =>
              /\ Current(state) = U32Zero
              /\ state.sp = U32Zero
              /\ ~state.fast_forwarding
              /\ hist.decs = CountFrom

\* The run of +[-] has ended with the body executed once.
C11_Witness ==
    /\ status = "exited"
    /\ file = <<"+", "[", "-", "]">>
    /\ steps = 4
    /\ hist.decs = 1

\* C12: a balanced loop entered outside fast forwarding with its cell at zero
\* is passed in one iteration per character, pc going up by one each time, and
\* when pc arrives behind the matching ']' the memory, the data pointer and
\* the stack pointer are what they were just before the '['.
C12_SkipLeavesData ==
    [][Called =>
        /\ ZeroEntry /\ skip_to' >= 0 => state'.pc = state.pc + 1
        /\ skip_to >= 0 =>
              /\ state'.pc = state.pc + 1
              /\ state'.mem = hist.snap.state.mem
              /\ state'.memp = hist.snap.state.memp
              /\ steps' - hist.snap.steps = state'.pc - hist.snap.pc
        /\ skip_to >= 0 /\ state.pc = skip_to =>
              /\ state'.pc = skip_to + 1
              /\ state'.sp = hist.snap.state.sp
              /\ steps' - hist.snap.steps = skip_to + 1 - hist.snap.pc]_vars

\* A loop with Increment and a nested loop in its body has just been skipped.
C12_Witness ==
    /\ file = <<"[", "+", "[", "]", "]">>
    /\ status = "running"
    /\ state.pc = 5
    /\ steps = 5
    /\ hist.snap.pc = 0
    /\ skip_to = -1

\* C13: a call of bf_char on a character that is no instruction advances pc
\* by one and changes nothing else, while fast forwarding or not: memory,
\* data pointer, stack, stack pointer, fast_forwarding and sp_bff stay, and
\* nothing is written or read.
C13_OtherCharacterOnlyAdvances ==
    [][Called /\ Char \notin Instructions =>
        /\ state' = [state EXCEPT !.pc = state.pc + 1]
        /\ stdout' = stdout
        /\ stdin' = stdin]_vars

\* A character that is no instruction has just been passed while fast
\* forwarding.
C13_Witness ==
    /\ file = <<"[", "x", "]">>
    /\ state.pc = 2
    /\ state.fast_forwarding

\* The 0-based indices of the '[' whose loop encloses position pc.
Enclosing(pc) ==
    {j \in 0..(pc - 1) : file[j + 1] = "[" /\ hist.match[j] >= pc}

\* C14: in every reachable state of a balanced stream, fast forwarding or
\* not, sp is the number of '[' whose loop encloses pc, and the stack entries
\* 1..sp hold, outermost first, the index plus one of those '[': as many
\* entries as there are such '[', each the index plus one of one of them,
\* in increasing order.
C14_StackMirrorsNesting ==
    Balanced(file) =>
        LET open == Enclosing(state.pc)
        IN  /\ state.sp = U32(Cardinality(open))
            /\ \A k \in 1..Cardinality(open) :
                  /\ k \in DOMAIN state.stack
                  /\ state.stack[k] - 1 \in open
                  /\ k > 1 => state.stack[k - 1] < state.stack[k]

\* C15: in a balanced stream, fast_forwarding is set only while pc is behind
\* a '[' that was executed on a zero cell outside fast forwarding and not
\* behind its matching ']'; the flag is set by such a '[' only and cleared by
\* that matching ']' only, so a ']' nested in the skipped body does not clear
\* it.  (The cell is a cell of mem: memp inside memory.)
C15_FastForwardSpan ==
    /\ [](Balanced(file) /\ InMem(state.memp) /\ state.fast_forwarding =>
            /\ skip_to >= 0
            /\ skip_to = hist.match[hist.snap.pc]
            /\ hist.snap.pc < state.pc
            /\ state.pc <= skip_to)
    /\ [][Balanced(file) /\ InMem(state.memp) /\ Called =>
            /\ (~state.fast_forwarding /\ state'.fast_forwarding) = ZeroEntry
            /\ (state.fast_forwarding /\ ~state'.fast_forwarding)
                  = (skip_to >= 0 /\ state.pc = skip_to)]_vars

\* The ']' of a loop nested in the skipped loop has been passed, and
\* fast_forwarding is still set.
C15_Witness ==
    /\ file = <<"[", "[", "]", "]">>
    /\ state.pc = 3
    /\ state.fast_forwarding
    /\ skip_to = 3

\* C16: a call on ']' whose cell is zero takes one from sp and advances pc
\* by one; a call on ']' whose cell is not zero leaves sp and the stack as
\* they are and sets pc to the stack entry at sp, which for a ']' of a
\* balanced stream is the index just behind its matching '['.  (The cell is
\* a cell of mem and the entry an entry of the stack.)
C16_LoopCloseStep ==
    [][Called /\ Char = "]" /\ InMem(state.memp) /\ InStack(state.sp) =>
        IF Current(state) = U32Zero
        THEN /\ state'.sp = U32Dec(state.sp)
             /\ state'.pc = state.pc + 1
        ELSE /\ state'.sp = state.sp
             /\ state'.stack = state.stack
             /\ state'.pc = StackGet(state.stack, Index(state.sp), 0)
             /\ Balanced(file) => state'.pc = hist.match[state.pc] + 1]_vars

\* A ']' on a nonzero cell has just jumped back behind its '['.
C16_Witness ==
    /\ file = <<"+", "[", "]">>
    /\ steps = 3
    /\ state.pc = 2
    /\ state.sp = U32(1)

\* C17: in every reachable state of every stream, while fast_forwarding is
\* set sp >= sp_bff >= 1 and the cell at the data pointer is zero, and while
\* it is clear sp_bff = 0.  (The cell is read where memp is inside memory.)
C17_AnchorBelowStack ==
    mode = "sim" =>
        IF state.fast_forwarding
        THEN /\ ~U32Less(state.sp, state.sp_bff)
             /\ state.sp_bff # U32Zero
             /\ InMem(state.memp) => Current(state) = U32Zero
        ELSE state.sp_bff = U32Zero

\* C18: bf_generate_rom writes inside the buffer of size bytes only, ends
\* what it writes with a '\0' inside the buffer, and returns as len the
\* number of bytes written before that '\0'; puts then reads no byte that
\* was not written (it reads the printed bytes and the '\0').
C18_RomTerminated ==
    mode = "bin" /\ status # "running" =>
        /\ Len(rom.written) <= rom.size
        /\ rom.written # <<>> /\ rom.written[Len(rom.written)] = NUL
        /\ rom.len = Len(rom.written) - 1
        /\ status # "segv"
        /\ status = "printed" => Len(stdout) + 1 <= Len(rom.written)

\* C19: for every stream, balanced or not, every stack access of bf_char is
\* inside the 256 entries of the stack and pc never exceeds the length of the
\* stream: no call is killed, sp stays an index of the stack (a ']' on the
\* empty stack does not take it below zero), the '[' about to be executed has
\* an entry to push to, and pc moves to no unrelated position (in a stream
\* without '[' there is nothing to jump back to, so pc counts the calls).
C19_StackInsideCapacity ==
    mode = "sim" =>
        /\ status # "segv"
        /\ state.pc <= Len(file)
        /\ InStack(state.sp)
        /\ status = "running" /\ state.pc < Len(file) /\ Char = "[" =>
              InStack(U32Inc(state.sp))
        /\ (\A i \in 1..Len(file) : file[i] # "[") => state.pc = steps

\* C20: for every cell width and every stream, no byte written by '.' is the
\* tab byte 9: a cell whose low 8 bits are 9 is written as a space.
C20_NoTabWritten ==
    mode = "sim" => \A i \in 1..Len(stdout) : stdout[i] # 9

====
